---- MODULE Spec2Model ----
(***************************************************************************)
(* Order lifecycle and inventory of ecom_shoe (orders/models.py,           *)
(* orders/admin.py, products/models.py).                                   *)
(*                                                                         *)
(* Spec     : every handler runs to completion (one admin user, one        *)
(*            request at a time).                                          *)
(* SpecConc : requests of several users overlap; every query a handler     *)
(*            sends to the database is a step of its own.                  *)
(* SpecItems: orders with delivery fees, a catalog whose prices change,   *)
(*            items added, changed and deleted.                            *)
(* SpecVariants: variants and the product deleted and created.            *)
(***************************************************************************)
EXTENDS Integers, Sequences, FiniteSets, TLC

(* ------------------------------------------------------------------ *)
(* Bounds                                                             *)
(* ------------------------------------------------------------------ *)
MaxOrders == 2

NumVariants == 1

MaxItems == 2

MaxQty == 2

MaxStock == 2

MaxTime == 2

MaxFee == 0

MaxPrice == 1

\* SpecConc: requests in flight, the stock every variant starts with, and
\* the largest quantity of an item
NumReqs == 2

ConcStock == 4

ConcMaxQty == 3

\* SpecItems: orders, the largest delivery fee and the largest catalog price
ItemsOrders == 1

MaxDeliveryFees == 1

MaxCatalogPrice == 2

(* ------------------------------------------------------------------ *)
(* Order.Status                                                       *)
(* ------------------------------------------------------------------ *)
PENDING == "Pending"

CONFIRMED == "Confirmed"

ON_THE_WAY == "OnTheWay"

DELIVERED == "Delivered"

RETURNED_BY_CLIENT == "ReturnedByClient"

RETURNED_BY_OWNER == "ReturnedByOwner"

CANCELLED == "Cancelled"

Status == {PENDING, CONFIRMED, ON_THE_WAY, DELIVERED, RETURNED_BY_CLIENT, RETURNED_BY_OWNER, CANCELLED}

Returned == {RETURNED_BY_CLIENT, RETURNED_BY_OWNER}

Terminal == {DELIVERED, CANCELLED, RETURNED_BY_CLIENT, RETURNED_BY_OWNER}

\* old_status of an instance without pk, a null timestamp, a null product_variant
None == "None"

Null == 0

NoVariant == 0

\* self.pk of an instance that was never saved
NoPk == 0

OrderIds == 1..MaxOrders

Variants == 1..NumVariants

(* ------------------------------------------------------------------ *)
(* State                                                              *)
(* ------------------------------------------------------------------ *)
VARIABLES orders, items, stock, product_price, now, reqs

vars == <<orders, items, stock, product_price, now, reqs>>

\* The stored rows as one value, for the operators that compute a handler
DB == [orders |-> orders, items |-> items, stock |-> stock]

(* ------------------------------------------------------------------ *)
(* ProductVariant.stock = PositiveIntegerField: the column refuses     *)
(* a value below zero (the UPDATE raises IntegrityError)               *)
(* ------------------------------------------------------------------ *)
StockColumnUnchecked(value) == TRUE

StockColumnAccepts(value) == value >= 0

(* ------------------------------------------------------------------ *)
(* Order.clean                                                        *)
(* ------------------------------------------------------------------ *)
valid_transitions_reopen(s) ==
    CASE s = PENDING -> {CONFIRMED, CANCELLED}
      [] s = CONFIRMED -> {ON_THE_WAY, CANCELLED}
      [] s = ON_THE_WAY -> {DELIVERED, RETURNED_BY_CLIENT, RETURNED_BY_OWNER}
      [] s = CANCELLED -> {PENDING}
      [] OTHER -> {}

valid_transitions(s) ==
    CASE s = PENDING -> {CONFIRMED, CANCELLED}
      [] s = CONFIRMED -> {ON_THE_WAY, CANCELLED}
      [] s = ON_THE_WAY -> {DELIVERED, RETURNED_BY_CLIENT, RETURNED_BY_OWNER}
      [] OTHER -> {}

ItemShortFirstOnly(its, stk) ==
    /\ Len(its) >= 1
    /\ its[1].product_variant # NoVariant
    /\ stk[its[1].product_variant] < its[1].quantity

\* some item of the order has a variant whose stock is below its quantity
ItemShort(its, stk) ==
    \E i \in 1..Len(its) :
        /\ its[i].product_variant # NoVariant
        /\ stk[its[i].product_variant] < its[i].quantity

\* the first test of Order.clean
InvalidTransition(old_status, new_status) ==
    new_status # old_status /\ new_status \notin valid_transitions(old_status)

StockValidatedOnConfirmOnly(old_status, new_status) ==
    old_status = PENDING /\ new_status = CONFIRMED

\* the transitions for which Order.clean looks at the stock
StockValidated(old_status, new_status) ==
    \/ (old_status = PENDING /\ new_status = CONFIRMED)
    \/ (old_status = CONFIRMED /\ new_status = ON_THE_WAY)

\* "ok", or the ValidationError raised
clean(db, pk, obj) ==
    IF pk = NoPk THEN "ok"
    ELSE LET old_status == db.orders[pk].order_status IN
         IF InvalidTransition(old_status, obj.order_status)
         THEN "InvalidTransition"
         ELSE IF /\ StockValidated(old_status, obj.order_status)
                 /\ ItemShort(db.items[pk], db.stock)
              THEN "InsufficientStock"
              ELSE "ok"

(* ------------------------------------------------------------------ *)
(* Order.save                                                         *)
(* ------------------------------------------------------------------ *)
SetTimestampsOverwrite(obj, t) ==
    CASE obj.order_status = CONFIRMED -> [obj EXCEPT !.confirmed_at = t]
      [] obj.order_status = ON_THE_WAY -> [obj EXCEPT !.on_the_way_at = t]
      [] obj.order_status = DELIVERED -> [obj EXCEPT !.delivered_at = t]
      [] obj.order_status \in Returned -> [obj EXCEPT !.returned_at = t]
      [] obj.order_status = CANCELLED -> [obj EXCEPT !.cancelled_at = t]
      [] OTHER -> obj

\* the elif chain of Order.save: only the timestamp of the instance's
\* status is looked at, and it is set only when it is null
SetTimestamps(obj, t) ==
    CASE obj.order_status = CONFIRMED /\ obj.confirmed_at = Null -> [obj EXCEPT !.confirmed_at = t]
      [] obj.order_status = ON_THE_WAY /\ obj.on_the_way_at = Null -> [obj EXCEPT !.on_the_way_at = t]
      [] obj.order_status = DELIVERED /\ obj.delivered_at = Null -> [obj EXCEPT !.delivered_at = t]
      [] obj.order_status \in Returned /\ obj.returned_at = Null -> [obj EXCEPT !.returned_at = t]
      [] obj.order_status = CANCELLED /\ obj.cancelled_at = Null -> [obj EXCEPT !.cancelled_at = t]
      [] OTHER -> obj

\* one UPDATE ... SET stock = stock + delta per item with a variant, in
\* item order; the first refused UPDATE raises and ends the loop
RECURSIVE StockLoop(_, _, _, _)
StockLoop(stk, its, i, sign) ==
    IF i > Len(its) THEN [stock |-> stk, raised |-> FALSE]
    ELSE LET v == its[i].product_variant IN
         IF v = NoVariant THEN StockLoop(stk, its, i + 1, sign)
         ELSE LET value == stk[v] + sign * its[i].quantity IN
              IF StockColumnAccepts(value)
              THEN StockLoop([stk EXCEPT ![v] = value], its, i + 1, sign)
              ELSE [stock |-> stk, raised |-> TRUE]

decrement_stock(db, pk) == StockLoop(db.stock, db.items[pk], 1, -1)

increment_stock(db, pk) == StockLoop(db.stock, db.items[pk], 1, 1)

\* super().save(): every field of the instance, or only update_fields
WriteRow(db, id, obj, update_fields) ==
    IF update_fields = "all"
    THEN (id :> obj) @@ db.orders
    ELSE [db.orders EXCEPT ![id].total_amount = obj.total_amount]

\* the stock logic runs only when the stored status differs from the
\* instance's
StatusMovedAlways(old_status, obj) == TRUE

StatusMoved(old_status, obj) == old_status # obj.order_status

\* Order.save outside any transaction: each write is committed as it is
\* made.  pk = NoPk creates the row under the fresh key id.
save(db, pk, id, obj, update_fields, t) ==
    LET old_status == IF pk = NoPk THEN None ELSE db.orders[pk].order_status
        c == clean(db, pk, obj)
    IN  IF c # "ok" THEN [db |-> db, outcome |-> c]
        ELSE LET stamped == SetTimestamps(obj, t)
                 db1 == [db EXCEPT !.orders = WriteRow(db, id, stamped, update_fields)]
                 moved == StatusMoved(old_status, obj)
                 loop == IF moved /\ obj.order_status = ON_THE_WAY THEN decrement_stock(db1, id)
                         ELSE IF moved /\ obj.order_status \in Returned THEN increment_stock(db1, id)
                         ELSE [stock |-> db1.stock, raised |-> FALSE]
             IN  [db |-> [db1 EXCEPT !.stock = loop.stock],
                  outcome |-> IF loop.raised THEN "IntegrityError" ELSE "ok"]

\* the same call inside transaction.atomic(): an exception undoes the writes
save_atomic(db, pk, id, obj, update_fields, t) ==
    LET r == save(db, pk, id, obj, update_fields, t)
    IN  IF r.outcome = "ok" THEN r ELSE [db |-> db, outcome |-> r.outcome]

(* ------------------------------------------------------------------ *)
(* Order.update_total, OrderItem.save, OrderItem.delete               *)
(* ------------------------------------------------------------------ *)
RECURSIVE ItemsTotal(_, _)
ItemsTotal(its, i) ==
    IF i > Len(its) THEN 0 ELSE its[i].price * its[i].quantity + ItemsTotal(its, i + 1)

update_total_items_only(db, pk, t) ==
    LET obj == [db.orders[pk] EXCEPT !.total_amount = ItemsTotal(db.items[pk], 1)]
    IN  save(db, pk, pk, obj, "total_amount", t)

\* item.order is read from the table when update_total is reached
update_total(db, pk, t) ==
    LET obj == [db.orders[pk] EXCEPT !.total_amount = ItemsTotal(db.items[pk], 1) + db.orders[pk].delivery_fees]
    IN  save(db, pk, pk, obj, "total_amount", t)

\* OrderItem.save: the price is taken from the catalog whenever the item
\* has a variant (ProductVariant has no price field, so Product.price);
\* an item without variant keeps the price the caller gave it
ItemPrice(it, catalog) == IF it.product_variant # NoVariant THEN catalog ELSE it.price

\* i = Len + 1 inserts the item, i <= Len rewrites the stored item
OrderItem_save(db, pk, i, it, catalog, t) ==
    LET saved == [it EXCEPT !.price = ItemPrice(it, catalog)]
        its == IF i > Len(db.items[pk]) THEN Append(db.items[pk], saved)
               ELSE [db.items[pk] EXCEPT ![i] = saved]
    IN  update_total([db EXCEPT !.items[pk] = its], pk, t)

RemoveAt(s, i) == [j \in 1..(Len(s) - 1) |-> IF j < i THEN s[j] ELSE s[j + 1]]

OrderItem_delete(db, pk, i, t) ==
    update_total([db EXCEPT !.items[pk] = RemoveAt(db.items[pk], i)], pk, t)

(* ------------------------------------------------------------------ *)
(* Product.bulk_update_stock                                          *)
(* ------------------------------------------------------------------ *)
\* product_map[pid].stock is read for every listed product that exists,
\* and Product has no stock field (stock is a field of ProductVariant):
\* the read raises AttributeError before anything is assigned; with no
\* listed product stored, bulk_update(products, ['stock']) raises
\* FieldDoesNotExist.  Either way nothing is written.
bulk_update_stock(db, listed) ==
    [db |-> db, outcome |-> IF listed THEN "AttributeError" ELSE "FieldDoesNotExist"]

(* ------------------------------------------------------------------ *)
(* OrderAdminForm.__init__                                            *)
(* ------------------------------------------------------------------ *)
form_allowed_cancel_on_the_way(current_status) ==
    CASE current_status = PENDING -> {PENDING, CONFIRMED, CANCELLED}
      [] current_status = CONFIRMED -> {CONFIRMED, ON_THE_WAY, CANCELLED}
      [] current_status = ON_THE_WAY ->
             {ON_THE_WAY, DELIVERED, RETURNED_BY_CLIENT, RETURNED_BY_OWNER, CANCELLED}
      [] OTHER -> {current_status}

\* the status choices the change form offers for a stored order
form_allowed(current_status) ==
    CASE current_status = PENDING -> {PENDING, CONFIRMED, CANCELLED}
      [] current_status = CONFIRMED -> {CONFIRMED, ON_THE_WAY, CANCELLED}
      [] current_status = ON_THE_WAY ->
             {ON_THE_WAY, DELIVERED, RETURNED_BY_CLIENT, RETURNED_BY_OWNER}
      [] OTHER -> {current_status}

(* ------------------------------------------------------------------ *)
(* OrderAdmin.save_model                                              *)
(* ------------------------------------------------------------------ *)
save_model_transitions(s) ==
    CASE s = PENDING -> {CONFIRMED, CANCELLED}
      [] s = CONFIRMED -> {ON_THE_WAY, CANCELLED}
      [] s = ON_THE_WAY -> {DELIVERED, RETURNED_BY_CLIENT, RETURNED_BY_OWNER}
      [] OTHER -> {}

save_model_timestamps(obj, t) ==
    CASE obj.order_status = CONFIRMED /\ obj.confirmed_at = Null -> [obj EXCEPT !.confirmed_at = t]
      [] obj.order_status = ON_THE_WAY /\ obj.on_the_way_at = Null -> [obj EXCEPT !.on_the_way_at = t]
      [] obj.order_status = DELIVERED /\ obj.delivered_at = Null -> [obj EXCEPT !.delivered_at = t]
      [] obj.order_status \in Returned /\ obj.returned_at = Null -> [obj EXCEPT !.returned_at = t]
      [] obj.order_status = CANCELLED /\ obj.cancelled_at = Null -> [obj EXCEPT !.cancelled_at = t]
      [] OTHER -> obj

\* change = True.  The admin change view runs inside transaction.atomic(),
\* so an exception out of obj.save() undoes what it wrote.
save_model(db, pk, obj, t) ==
    LET old_status == db.orders[pk].order_status
        new_status == obj.order_status
    IN  IF old_status # new_status /\ new_status \notin save_model_transitions(old_status)
        THEN [db |-> db, outcome |-> "InvalidTransition"]
        ELSE IF /\ old_status # new_status
                /\ new_status \in {CONFIRMED, ON_THE_WAY}
                /\ ItemShort(db.items[pk], db.stock)
             THEN [db |-> db, outcome |-> "InsufficientStock"]
             ELSE save_atomic(db, pk, pk, save_model_timestamps(obj, t), "all", t)

(* ------------------------------------------------------------------ *)
(* The six bulk actions of OrderAdmin                                 *)
(* ------------------------------------------------------------------ *)
Actions == {"mark_as_confirmed", "mark_as_on_the_way", "mark_as_delivered",
            "mark_as_cancelled", "mark_as_returned_client", "mark_as_returned_owner"}

\* the statuses an action lets through, and the status it assigns
ActionSources(a) ==
    CASE a = "mark_as_confirmed" -> {PENDING}
      [] a = "mark_as_on_the_way" -> {CONFIRMED}
      [] a = "mark_as_delivered" -> {ON_THE_WAY}
      [] a = "mark_as_cancelled" -> {PENDING, CONFIRMED}
      [] a = "mark_as_returned_client" -> {ON_THE_WAY}
      [] a = "mark_as_returned_owner" -> {ON_THE_WAY}

ActionTarget(a) ==
    CASE a = "mark_as_confirmed" -> CONFIRMED
      [] a = "mark_as_on_the_way" -> ON_THE_WAY
      [] a = "mark_as_delivered" -> DELIVERED
      [] a = "mark_as_cancelled" -> CANCELLED
      [] a = "mark_as_returned_client" -> RETURNED_BY_CLIENT
      [] a = "mark_as_returned_owner" -> RETURNED_BY_OWNER

\* the action assigns its timestamp without looking at the old value
ActionStamp(a, obj, t) ==
    CASE a = "mark_as_confirmed" -> [obj EXCEPT !.order_status = CONFIRMED, !.confirmed_at = t]
      [] a = "mark_as_on_the_way" -> [obj EXCEPT !.order_status = ON_THE_WAY, !.on_the_way_at = t]
      [] a = "mark_as_delivered" -> [obj EXCEPT !.order_status = DELIVERED, !.delivered_at = t]
      [] a = "mark_as_cancelled" -> [obj EXCEPT !.order_status = CANCELLED, !.cancelled_at = t]
      [] a = "mark_as_returned_client" -> [obj EXCEPT !.order_status = RETURNED_BY_CLIENT, !.returned_at = t]
      [] a = "mark_as_returned_owner" -> [obj EXCEPT !.order_status = RETURNED_BY_OWNER, !.returned_at = t]

\* mark_as_on_the_way: variants_map.get(...) is None for an item without
\* variant, and that item refuses the order
DispatchShort(its, stk) ==
    \E i \in 1..Len(its) :
        \/ its[i].product_variant = NoVariant
        \/ stk[its[i].product_variant] < its[i].quantity

\* the stock gate the action itself applies before order.save()
ActionGate(a, its, stk) ==
    CASE a = "mark_as_confirmed" -> ItemShort(its, stk)
      [] a = "mark_as_on_the_way" -> DispatchShort(its, stk)
      [] OTHER -> FALSE

\* mark_as_confirmed and mark_as_on_the_way wrap each order in
\* transaction.atomic() and catch ValidationError; the other four do neither
ActionAtomic(a) == a \in {"mark_as_confirmed", "mark_as_on_the_way"}

\* the body of the for loop for one order; obj is the instance the
\* queryset loaded.  outcome "ok" counts as a success; raised tells that
\* an exception leaves the action
ActionBody(a, db, pk, obj, t) ==
    IF obj.order_status \notin ActionSources(a)
    THEN [db |-> db, outcome |-> "InvalidTransition", raised |-> FALSE]
    ELSE IF ActionGate(a, db.items[pk], db.stock)
         THEN [db |-> db, outcome |-> "InsufficientStock", raised |-> FALSE]
         ELSE LET r == IF ActionAtomic(a)
                       THEN save_atomic(db, pk, pk, ActionStamp(a, obj, t), "all", t)
                       ELSE save(db, pk, pk, ActionStamp(a, obj, t), "all", t)
              IN  [db |-> r.db, outcome |-> r.outcome,
                   raised |-> IF ActionAtomic(a) THEN r.outcome = "IntegrityError"
                              ELSE r.outcome # "ok"]

\* OrderAdmin.get_queryset: order_by(_status_order, -order_date)
StatusOrder(s) ==
    CASE s = PENDING -> 0
      [] s = CONFIRMED -> 1
      [] s = ON_THE_WAY -> 2
      [] s = DELIVERED -> 3
      [] OTHER -> 4

Before(ords, a, b) ==
    \/ StatusOrder(ords[a].order_status) < StatusOrder(ords[b].order_status)
    \/ /\ StatusOrder(ords[a].order_status) = StatusOrder(ords[b].order_status)
       /\ a > b

RECURSIVE QuerysetOrder(_, _)
QuerysetOrder(ords, sel) ==
    IF sel = {} THEN <<>>
    ELSE LET first == CHOOSE a \in sel : \A b \in sel \ {a} : Before(ords, a, b)
         IN  <<first>> \o QuerysetOrder(ords, sel \ {first})

\* the for loop: the instances are those loaded when the queryset was
\* evaluated (pre); an exception ends the loop and the request
RECURSIVE ActionLoop(_, _, _, _, _, _, _)
ActionLoop(a, pre, db, seq, i, acc, t) ==
    IF i > Len(seq) THEN [db |-> db, outcome |-> acc, raised |-> FALSE]
    ELSE LET pk == seq[i]
             r == ActionBody(a, db, pk, pre.orders[pk], t)
             acc1 == [acc EXCEPT ![pk] = r.outcome]
         IN  IF r.raised THEN [db |-> r.db, outcome |-> acc1, raised |-> TRUE]
             ELSE ActionLoop(a, pre, r.db, seq, i + 1, acc1, t)

BulkAction(a, db, sel, t) ==
    ActionLoop(a, db, db, QuerysetOrder(db.orders, sel), 1, [pk \in sel |-> "skipped"], t)

Successes(outcome) == Cardinality({pk \in DOMAIN outcome : outcome[pk] = "ok"})

(* ------------------------------------------------------------------ *)
(* Initial state and handlers                                         *)
(* ------------------------------------------------------------------ *)
\* a new Order instance: the field defaults, with the status and the
\* delivery fee the caller chose
NewOrder(s, fee) ==
    [order_status |-> s, confirmed_at |-> Null, on_the_way_at |-> Null,
     delivered_at |-> Null, returned_at |-> Null, cancelled_at |-> Null,
     total_amount |-> 0, delivery_fees |-> fee]

Reqs == 1..NumReqs

\* what a request holds before it has loaded an order
NoInstance == NewOrder(PENDING, 0)

\* a request slot nobody has used yet
Idle ==
    [kind |-> "idle", a |-> "none", pk |-> NoPk, target |-> None, loaded |-> None,
     pc |-> "idle", obj |-> NoInstance, old_status |-> None, i |-> 0,
     outcome |-> "none", wrote |-> FALSE, delta |-> [v \in Variants |-> 0],
     vlocks |-> {}]

Init ==
    /\ orders = <<>>
    /\ items = [pk \in OrderIds |-> <<>>]
    /\ stock \in [Variants -> 0..MaxStock]
    /\ product_price = 1
    /\ now = 1
    /\ reqs = [q \in Reqs |-> Idle]

\* the rows a handler leaves behind
Apply(r) ==
    /\ orders' = r.db.orders
    /\ items' = r.db.items
    /\ stock' = r.db.stock
    /\ UNCHANGED <<product_price, now, reqs>>

\* the values timezone.now() can return from this state on
Times == now..MaxTime

\* the instance a caller holds after  o = Order.objects.get(pk=pk);
\* o.order_status = target
Requested(pk, target) == [orders[pk] EXCEPT !.order_status = target]

\* the same request made on the rows db
SaveAt(db, pk, target, t) ==
    save(db, pk, pk, [db.orders[pk] EXCEPT !.order_status = target], "all", t)

\* the three ways to ask for a status: o.save(), the admin change view,
\* and a bulk action over the selected orders
ViaSave(pk, target, t) == save(DB, pk, pk, Requested(pk, target), "all", t)

ViaSaveModel(pk, target, t) == save_model(DB, pk, Requested(pk, target), t)

ViaAction(a, sel, t) == BulkAction(a, DB, sel, t)

Selections == (SUBSET DOMAIN orders) \ {{}}

\* timezone.now() does not go back
Tick ==
    /\ now < MaxTime
    /\ now' = now + 1
    /\ UNCHANGED <<orders, items, stock, product_price, reqs>>

\* Order(...).save() of a new instance; save_model with change = False
CreateOrder ==
    \E s \in Status, fee \in 0..MaxFee :
        LET id == Len(orders) + 1 IN
        /\ id \in OrderIds
        /\ LET r == save(DB, NoPk, id, NewOrder(s, fee), "all", now)
           IN  Apply(r)

\* o = Order.objects.get(pk=pk); o.order_status = target; o.save()
SaveOrder ==
    \E pk \in DOMAIN orders, target \in Status :
        Apply(ViaSave(pk, target, now))

\* the admin change view with order_status = target in the posted form
AdminSaveModel ==
    \E pk \in DOMAIN orders, target \in Status :
        Apply(ViaSaveModel(pk, target, now))

Bulk(a) ==
    \E sel \in Selections : Apply(ViaAction(a, sel, now))

mark_as_confirmed == Bulk("mark_as_confirmed")

mark_as_on_the_way == Bulk("mark_as_on_the_way")

mark_as_delivered == Bulk("mark_as_delivered")

mark_as_cancelled == Bulk("mark_as_cancelled")

mark_as_returned_client == Bulk("mark_as_returned_client")

mark_as_returned_owner == Bulk("mark_as_returned_owner")

RECURSIVE ItemCount(_)
ItemCount(pks) ==
    IF pks = {} THEN 0
    ELSE LET pk == CHOOSE x \in pks : TRUE IN Len(items[pk]) + ItemCount(pks \ {pk})

ItemInputs ==
    [product_variant : Variants \cup {NoVariant}, quantity : 1..MaxQty, price : 1..MaxPrice]

\* OrderItem(order=pk, ...).save() of a new item
AddItem ==
    \E pk \in DOMAIN orders, it \in ItemInputs :
        /\ ItemCount(OrderIds) < MaxItems
        /\ LET r == OrderItem_save(DB, pk, Len(items[pk]) + 1, it, product_price, now)
           IN  Apply(r)

\* a stored item saved again with another variant or quantity
ChangeItem ==
    \E pk \in DOMAIN orders, it \in ItemInputs :
        \E i \in 1..Len(items[pk]) :
            /\ it.price = items[pk][i].price
            /\ <<it.product_variant, it.quantity>> # <<items[pk][i].product_variant, items[pk][i].quantity>>
            /\ LET r == OrderItem_save(DB, pk, i, it, product_price, now)
               IN  Apply(r)

DeleteItem ==
    \E pk \in DOMAIN orders :
        \E i \in 1..Len(items[pk]) :
            LET r == OrderItem_delete(DB, pk, i, now)
            IN  Apply(r)

Next ==
    \/ CreateOrder
    \/ SaveOrder
    \/ AdminSaveModel
    \/ mark_as_confirmed
    \/ mark_as_on_the_way
    \/ mark_as_delivered
    \/ mark_as_cancelled
    \/ mark_as_returned_client
    \/ mark_as_returned_owner
    \/ AddItem
    \/ ChangeItem
    \/ DeleteItem

\* Spec: the handlers one after the other, all within one reading of the
\* clock (a timestamp enters no decision except through "is it null")
Spec == Init /\ [][Next]_vars

TypeOK ==
    /\ DOMAIN orders \subseteq OrderIds
    /\ \A pk \in DOMAIN orders : orders[pk].order_status \in Status
    /\ \A v \in Variants : stock[v] \in Int

(* ================================================================== *)
(* Overlapping requests                                               *)
(*                                                                    *)
(* Each request works on one order.  It holds the instance it loaded  *)
(* (obj) and reads and writes the tables one query per step.  A       *)
(* request inside transaction.atomic() buffers its writes (wrote,     *)
(* delta) and keeps the row locks of what it wrote or selected for    *)
(* update until it ends; the others read committed rows only, and an  *)
(* UPDATE waits for a row another request has locked.                 *)
(* ================================================================== *)
\* the admin change view, and the body of mark_as_confirmed and
\* mark_as_on_the_way, run inside transaction.atomic()
InTxn(r) == r.kind = "save_model" \/ (r.kind = "action" /\ ActionAtomic(r.a))

\* another request holds the lock of variant v, or of the order row pk
VariantLockedByOther(q, v) == \E p \in Reqs \ {q} : v \in reqs[p].vlocks

RowLockedByOther(q, pk) == \E p \in Reqs \ {q} : reqs[p].wrote /\ reqs[p].pk = pk

ItemVariants(its) == {its[i].product_variant : i \in 1..Len(its)} \ {NoVariant}

\* the tables after the request's buffered writes are committed
CommitOrders(r) == IF r.wrote THEN [orders EXCEPT ![r.pk] = r.obj] ELSE orders

CommitStock(r) == [v \in Variants |-> stock[v] + r.delta[v]]

\* the request goes on: r is its next state, ords the order table
Continue(q, r, ords) ==
    /\ reqs' = [reqs EXCEPT ![q] = r]
    /\ orders' = ords
    /\ UNCHANGED <<items, stock, product_price, now>>

\* the request ends with the tables ords and stk; its locks are released
Finish(q, r, outcome, ords, stk) ==
    /\ reqs' = [reqs EXCEPT ![q] =
                   [Idle EXCEPT !.kind = r.kind, !.a = r.a, !.pk = r.pk, !.target = r.target,
                                !.loaded = r.loaded, !.pc = "done", !.outcome = outcome]]
    /\ orders' = ords
    /\ stock' = stk
    /\ UNCHANGED <<items, product_price, now>>

\* the request returns or raises before it has written: nothing to undo
Refuse(q, outcome) == Finish(q, reqs[q], outcome, orders, stock)

\* o = Order.objects.get(pk=pk); o.order_status = target; o.save() begins
StartSave(q) ==
    \E pk \in DOMAIN orders, target \in Status :
        /\ reqs[q].pc = "idle"
        /\ Continue(q, [Idle EXCEPT !.kind = "save", !.pk = pk, !.target = target,
                                    !.loaded = orders[pk].order_status,
                                    !.obj = Requested(pk, target), !.pc = "old"], orders)

\* the change view loads the order and applies the posted form
StartSaveModel(q) ==
    \E pk \in DOMAIN orders, target \in Status :
        /\ reqs[q].pc = "idle"
        /\ Continue(q, [Idle EXCEPT !.kind = "save_model", !.pk = pk, !.target = target,
                                    !.loaded = orders[pk].order_status,
                                    !.obj = Requested(pk, target), !.pc = "sm_old"], orders)

\* a bulk action on the selection {pk}: the queryset is evaluated (with
\* the items and their variants prefetched), then the status test and,
\* in mark_as_confirmed, the stock test run on what was loaded
StartAction(q) ==
    \E pk \in DOMAIN orders, a \in Actions :
        LET r == [Idle EXCEPT !.kind = "action", !.a = a, !.pk = pk, !.target = ActionTarget(a),
                              !.loaded = orders[pk].order_status, !.obj = orders[pk]]
        IN  /\ reqs[q].pc = "idle"
            /\ IF orders[pk].order_status \notin ActionSources(a)
               THEN Finish(q, r, "InvalidTransition", orders, stock)
               ELSE IF a = "mark_as_confirmed" /\ ItemShort(items[pk], stock)
               THEN Finish(q, r, "InsufficientStock", orders, stock)
               ELSE IF a = "mark_as_on_the_way"
               THEN Continue(q, [r EXCEPT !.pc = "lock"], orders)
               ELSE Continue(q, [r EXCEPT !.obj = ActionStamp(a, r.obj, now), !.pc = "old"], orders)

\* mark_as_on_the_way: select_for_update() on the variants of the items,
\* then the stock test on the locked rows
LockVariants(q) ==
    LET r == reqs[q]
        vs == ItemVariants(items[r.pk])
    IN  /\ r.pc = "lock"
        /\ \A v \in vs : ~VariantLockedByOther(q, v)
        /\ IF DispatchShort(items[r.pk], stock)
           THEN Refuse(q, "InsufficientStock")
           ELSE Continue(q, [r EXCEPT !.vlocks = vs, !.obj = ActionStamp(r.a, r.obj, now),
                                      !.pc = "old"], orders)

\* save_model: old = Order.objects.get(pk=obj.pk) and the transition test
SaveModelOld(q) ==
    LET r == reqs[q]
        old_status == orders[r.pk].order_status
        new_status == r.obj.order_status
    IN  /\ r.pc = "sm_old"
        /\ IF old_status # new_status /\ new_status \notin save_model_transitions(old_status)
           THEN Refuse(q, "InvalidTransition")
           ELSE IF old_status # new_status /\ new_status \in {CONFIRMED, ON_THE_WAY}
           THEN Continue(q, [r EXCEPT !.pc = "sm_stock"], orders)
           ELSE Continue(q, [r EXCEPT !.obj = save_model_timestamps(r.obj, now), !.pc = "old"], orders)

\* save_model: obj.items.select_related("product_variant") and the stock test
SaveModelStock(q) ==
    LET r == reqs[q]
    IN  /\ r.pc = "sm_stock"
        /\ IF ItemShort(items[r.pk], stock)
           THEN Refuse(q, "InsufficientStock")
           ELSE Continue(q, [r EXCEPT !.obj = save_model_timestamps(r.obj, now), !.pc = "old"], orders)

\* Order.save: old_status = Order.objects.get(pk=self.pk).order_status
ReadOld(q) ==
    LET r == reqs[q]
    IN  /\ r.pc = "old"
        /\ Continue(q, [r EXCEPT !.old_status = orders[r.pk].order_status, !.pc = "clean"], orders)

\* Order.clean: the status is read again for the transition test
CleanStatus(q) ==
    LET r == reqs[q]
        old_status == orders[r.pk].order_status
    IN  /\ r.pc = "clean"
        /\ IF InvalidTransition(old_status, r.obj.order_status)
           THEN Refuse(q, "InvalidTransition")
           ELSE IF StockValidated(old_status, r.obj.order_status)
           THEN Continue(q, [r EXCEPT !.pc = "clean_stock"], orders)
           ELSE Continue(q, [r EXCEPT !.pc = "write"], orders)

\* Order.clean: the items and their variants are read for the stock test
CleanStock(q) ==
    LET r == reqs[q]
    IN  /\ r.pc = "clean_stock"
        /\ IF ItemShort(items[r.pk], stock)
           THEN Refuse(q, "InsufficientStock")
           ELSE Continue(q, [r EXCEPT !.pc = "write"], orders)

\* the stock logic Order.save runs after the row is written: -1 to
\* decrement, 1 to restock, 0 for none
StockSign(old_status, obj) ==
    IF ~StatusMoved(old_status, obj) THEN 0
    ELSE IF obj.order_status = ON_THE_WAY THEN -1
    ELSE IF obj.order_status \in Returned THEN 1
    ELSE 0

\* Order.save: the timestamps, then super().save() writes every field of
\* the instance
WriteOrder(q) ==
    LET r == reqs[q]
        stamped == SetTimestamps(r.obj, now)
        r1 == [r EXCEPT !.obj = stamped, !.wrote = InTxn(r)]
        ords == IF InTxn(r) THEN orders ELSE [orders EXCEPT ![r.pk] = stamped]
    IN  /\ r.pc = "write"
        /\ ~RowLockedByOther(q, r.pk)
        /\ IF StockSign(r.old_status, stamped) # 0 /\ Len(items[r.pk]) > 0
           THEN Continue(q, [r1 EXCEPT !.pc = "stock", !.i = 1], ords)
           ELSE Finish(q, r1, "ok", CommitOrders(r1), CommitStock(r1))

\* decrement_stock / increment_stock: the UPDATE of item i's variant
UpdateStock(q) ==
    LET r == reqs[q]
        it == items[r.pk][r.i]
        v == it.product_variant
        change == StockSign(r.old_status, r.obj) * it.quantity
        r1 == IF v = NoVariant \/ ~InTxn(r) THEN r
              ELSE [r EXCEPT !.delta[v] = @ + change, !.vlocks = @ \cup {v}]
        stk == IF v = NoVariant \/ InTxn(r) THEN stock
               ELSE [stock EXCEPT ![v] = @ + change]
    IN  /\ r.pc = "stock"
        /\ v # NoVariant => ~VariantLockedByOther(q, v)
        /\ IF v # NoVariant /\ ~StockColumnAccepts(stock[v] + r.delta[v] + change)
           THEN Refuse(q, "IntegrityError")
           ELSE IF r.i < Len(items[r.pk])
           THEN /\ reqs' = [reqs EXCEPT ![q] = [r1 EXCEPT !.i = r.i + 1]]
                /\ stock' = stk
                /\ UNCHANGED <<orders, items, product_price, now>>
           ELSE Finish(q, r1, "ok", CommitOrders(r1),
                       [w \in Variants |-> stk[w] + r1.delta[w]])

\* the lock request q waits for is held by p
WaitsFor(q, p) ==
    LET r == reqs[q]
    IN  /\ p # q
        /\ \/ /\ r.pc = "lock"
              /\ \E v \in ItemVariants(items[r.pk]) : v \in reqs[p].vlocks
           \/ /\ r.pc = "write"
              /\ reqs[p].wrote /\ reqs[p].pk = r.pk
           \/ /\ r.pc = "stock"
              /\ items[r.pk][r.i].product_variant \in reqs[p].vlocks

\* two transactions wait for each other: the database ends one of them
DeadlockAbort(q) ==
    /\ \E p \in Reqs : WaitsFor(q, p) /\ WaitsFor(p, q)
    /\ Refuse(q, "OperationalError")

\* the rows of an order that went through the lifecycle up to status s,
\* with one item of quantity n on variant v
OrderAt(s, n) ==
    [NewOrder(s, 0) EXCEPT
        !.confirmed_at = IF s \in {CONFIRMED, ON_THE_WAY} THEN 1 ELSE Null,
        !.on_the_way_at = IF s = ON_THE_WAY THEN 1 ELSE Null,
        !.total_amount = n]

ConcQuantities == (ConcMaxQty - 1)..ConcMaxQty

InitConc ==
    /\ \E s \in [OrderIds -> {PENDING, CONFIRMED, ON_THE_WAY}], n \in [OrderIds -> ConcQuantities] :
           /\ orders = [pk \in OrderIds |-> OrderAt(s[pk], n[pk])]
           /\ items = [pk \in OrderIds |->
                          <<[product_variant |-> 1, quantity |-> n[pk], price |-> 1]>>]
    /\ stock = [v \in Variants |-> ConcStock]
    /\ product_price = 1
    /\ now = 1
    /\ reqs = [q \in Reqs |-> Idle]

NextConc ==
    \/ \E q \in Reqs : StartSave(q)
    \/ \E q \in Reqs : StartSaveModel(q)
    \/ \E q \in Reqs : StartAction(q)
    \/ \E q \in Reqs : LockVariants(q)
    \/ \E q \in Reqs : SaveModelOld(q)
    \/ \E q \in Reqs : SaveModelStock(q)
    \/ \E q \in Reqs : ReadOld(q)
    \/ \E q \in Reqs : CleanStatus(q)
    \/ \E q \in Reqs : CleanStock(q)
    \/ \E q \in Reqs : WriteOrder(q)
    \/ \E q \in Reqs : UpdateStock(q)
    \/ \E q \in Reqs : DeadlockAbort(q)
    \/ Tick

SpecConc == InitConc /\ [][NextConc]_vars

(* ================================================================== *)
(* Items, delivery fees and catalog prices                            *)
(*                                                                    *)
(* SpecItems: the handlers of Spec that write orders and items one    *)
(* after the other, with orders that carry a delivery fee, a catalog  *)
(* price that changes, and the item forms of the admin change view.   *)
(* ================================================================== *)
\* the statuses for which OrderItemInline makes product_variant and
\* quantity read-only
InlineLocked == {ON_THE_WAY, DELIVERED, RETURNED_BY_CLIENT, RETURNED_BY_OWNER, CANCELLED}

\* the statuses for which OrderAdmin makes delivery_fees read-only
FeesLocked == {ON_THE_WAY, DELIVERED, RETURNED_BY_CLIENT, RETURNED_BY_OWNER, CANCELLED}

\* Order(..., delivery_fees=fee).save() of a new instance
CreateOrderWithFees ==
    \E s \in Status, fee \in 0..MaxDeliveryFees :
        LET id == Len(orders) + 1 IN
        /\ id \in 1..ItemsOrders
        /\ Apply(save(DB, NoPk, id, NewOrder(s, fee), "all", now))

\* o = Order.objects.get(pk=pk); o.delivery_fees = fee; o.save()
ChangeDeliveryFees ==
    \E pk \in DOMAIN orders, fee \in 0..MaxDeliveryFees :
        /\ fee # orders[pk].delivery_fees
        /\ Apply(save(DB, pk, pk, [orders[pk] EXCEPT !.delivery_fees = fee], "all", now))

\* the admin change view with another delivery_fees in the posted form
AdminChangeDeliveryFees ==
    \E pk \in DOMAIN orders, fee \in 0..MaxDeliveryFees :
        /\ fee # orders[pk].delivery_fees
        /\ orders[pk].order_status \notin FeesLocked
        /\ Apply(save_model(DB, pk, [orders[pk] EXCEPT !.delivery_fees = fee], now))

\* product.price = p; product.save() in the catalog
ChangeCatalogPrice ==
    \E p \in 1..MaxCatalogPrice :
        /\ p # product_price
        /\ product_price' = p
        /\ UNCHANGED <<orders, items, stock, now, reqs>>

\* the inline formset of the change view: has_add_permission and
\* has_delete_permission are False for a stored order, and a row's
\* variant and quantity can be posted only while the order is not locked
InlineChangeItem ==
    \E pk \in DOMAIN orders, it \in ItemInputs :
        \E i \in 1..Len(items[pk]) :
            /\ orders[pk].order_status \notin InlineLocked
            /\ it.price = items[pk][i].price
            /\ <<it.product_variant, it.quantity>> # <<items[pk][i].product_variant, items[pk][i].quantity>>
            /\ Apply(OrderItem_save(DB, pk, i, it, product_price, now))

NextItems ==
    \/ CreateOrderWithFees
    \/ SaveOrder
    \/ ChangeDeliveryFees
    \/ AdminChangeDeliveryFees
    \/ ChangeCatalogPrice
    \/ AddItem
    \/ ChangeItem
    \/ DeleteItem
    \/ InlineChangeItem

SpecItems == Init /\ [][NextItems]_vars

(* ================================================================== *)
(* Deleting variants                                                  *)
(*                                                                    *)
(* SpecVariants: the stored variants are the domain of stock;         *)
(* variants and the product are deleted and created while orders get  *)
(* and lose items.                                                    *)
(* ================================================================== *)
ProtectedNever(db, v) == FALSE

\* OrderItem.product_variant is on_delete=PROTECT: some stored item
\* references the variant
Protected(db, v) ==
    \E pk \in DOMAIN db.orders :
        \E i \in 1..Len(db.items[pk]) : db.items[pk][i].product_variant = v

\* variant.delete(): the collector raises ProtectedError when an item
\* references the variant, before any row is deleted
ProductVariant_delete(db, v) ==
    IF Protected(db, v)
    THEN [db |-> db, outcome |-> "ProtectedError"]
    ELSE [db |-> [db EXCEPT !.stock = [w \in DOMAIN db.stock \ {v} |-> db.stock[w]]],
          outcome |-> "ok"]

\* product.delete(): ProductVariant.product is on_delete=CASCADE, so the
\* collector takes the product's variants along and raises ProtectedError
\* when an item references one of them
Product_delete(db) ==
    IF \E v \in DOMAIN db.stock : Protected(db, v)
    THEN [db |-> db, outcome |-> "ProtectedError"]
    ELSE [db |-> [db EXCEPT !.stock = <<>>], outcome |-> "ok"]

DeleteVariant ==
    \E v \in DOMAIN stock : Apply(ProductVariant_delete(DB, v))

DeleteProduct ==
    /\ DOMAIN stock # {}
    /\ Apply(Product_delete(DB))

\* ProductVariant(product=p, size=..., stock=s).save()
CreateVariant ==
    \E v \in Variants \ DOMAIN stock, s \in 0..MaxStock :
        /\ stock' = (v :> s) @@ stock
        /\ UNCHANGED <<orders, items, product_price, now, reqs>>

\* OrderItem(order=pk, ...).save() with a stored variant or none: the
\* foreign key admits no other
AddItemOfStoredVariant ==
    \E pk \in DOMAIN orders, it \in ItemInputs :
        /\ it.product_variant \in DOMAIN stock \cup {NoVariant}
        /\ ItemCount(OrderIds) < MaxItems
        /\ Apply(OrderItem_save(DB, pk, Len(items[pk]) + 1, it, product_price, now))

NextVariants ==
    \/ CreateOrder
    \/ AddItemOfStoredVariant
    \/ DeleteItem
    \/ DeleteVariant
    \/ DeleteProduct
    \/ CreateVariant

SpecVariants == Init /\ [][NextVariants]_vars

(* ================================================================== *)
(* Read-only fields of the admin change form                          *)
(* ================================================================== *)
\* OrderAdmin.readonly_fields
OrderAdmin_readonly_fields ==
    {"order_date", "total_amount", "confirmed_at", "on_the_way_at",
     "delivered_at", "returned_at", "cancelled_at"}

\* OrderItemInline.readonly_fields
OrderItemInline_readonly_fields ==
    {"price", "get_product_name", "get_product_size", "get_product_color"}

OrderAdmin_get_readonly_fields_final_status_only(obj_status) ==
    OrderAdmin_readonly_fields \cup
        (IF obj_status = None THEN {}
         ELSE IF obj_status = ON_THE_WAY
         THEN {"costumer_name", "costumer_phone", "wilaya", "commune",
               "delivery_type", "delivery_fees"}
         ELSE IF obj_status \in {DELIVERED, RETURNED_BY_CLIENT, RETURNED_BY_OWNER, CANCELLED}
         THEN {"order_status"}
         ELSE {})

\* OrderAdmin.get_readonly_fields(request, obj); obj_status is None on the
\* add form, where there is no obj
OrderAdmin_get_readonly_fields(obj_status) ==
    OrderAdmin_readonly_fields \cup
        (IF obj_status = None THEN {}
         ELSE IF obj_status = ON_THE_WAY
         THEN {"costumer_name", "costumer_phone", "wilaya", "commune",
               "delivery_type", "delivery_fees"}
         ELSE IF obj_status \in {DELIVERED, RETURNED_BY_CLIENT, RETURNED_BY_OWNER, CANCELLED}
         THEN {"costumer_name", "costumer_phone", "wilaya", "commune",
               "delivery_type", "delivery_fees", "order_status"}
         ELSE {})

\* OrderItemInline.get_readonly_fields(request, obj)
OrderItemInline_get_readonly_fields(obj_status) ==
    OrderItemInline_readonly_fields \cup
        (IF obj_status # None
            /\ obj_status \in {ON_THE_WAY, DELIVERED, RETURNED_BY_CLIENT,
                               RETURNED_BY_OWNER, CANCELLED}
         THEN {"product_variant", "quantity"}
         ELSE {})

(* ================================================================== *)
(* Reports (stats/utils.py)                                           *)
(* ================================================================== *)
\* Order.objects.filter(order_status='Accepted')
accepted_orders(db) == {pk \in DOMAIN db.orders : db.orders[pk].order_status = "Accepted"}

\* Sum('total_amount') over the orders pks
RECURSIVE SumTotalAmount(_, _)
SumTotalAmount(db, pks) ==
    IF pks = {} THEN 0
    ELSE LET pk == CHOOSE x \in pks : TRUE
         IN  db.orders[pk].total_amount + SumTotalAmount(db, pks \ {pk})

\* total_revenue(): the aggregate is None over no rows, and 'or 0' makes it 0
total_revenue(db) ==
    IF accepted_orders(db) = {} THEN 0 ELSE SumTotalAmount(db, accepted_orders(db))

\* conversion_overall(): round(accepted / total * 100, 2) if total else 0,
\* here in hundredths of a percent, rounded to the nearest
conversion_overall(db) ==
    LET total == Cardinality(DOMAIN db.orders)
        accepted == Cardinality(accepted_orders(db))
    IN  IF total = 0 THEN 0
        ELSE (2 * accepted * 10000 + total) \div (2 * total)

(* ================================================================== *)
(* Error messages                                                     *)
(*                                                                    *)
(* A message is the function from the names of what its text states   *)
(* to the values stated.                                              *)
(* ================================================================== *)
\* the first item the loop of Order.clean / save_model finds short
FirstShort(its, stk) ==
    CHOOSE i \in 1..Len(its) :
        /\ its[i].product_variant # NoVariant
        /\ stk[its[i].product_variant] < its[i].quantity
        /\ \A j \in 1..(i - 1) :
               its[j].product_variant = NoVariant \/ stk[its[j].product_variant] >= its[j].quantity

\* the first item the loop of mark_as_on_the_way refuses
FirstRefused(its, stk) ==
    CHOOSE i \in 1..Len(its) :
        /\ its[i].product_variant = NoVariant \/ stk[its[i].product_variant] < its[i].quantity
        /\ \A j \in 1..(i - 1) :
               its[j].product_variant # NoVariant /\ stk[its[j].product_variant] >= its[j].quantity

\* Order.clean: "Invalid transition from {old_status} -> {self.order_status}"
\* and "Not enough stock for {pv} (required {item.quantity}, available {pv.stock})."
clean_message(db, pk, obj) ==
    LET old_status == db.orders[pk].order_status IN
    IF clean(db, pk, obj) = "InvalidTransition"
    THEN ("current_status" :> old_status) @@ ("requested_status" :> obj.order_status)
    ELSE LET it == db.items[pk][FirstShort(db.items[pk], db.stock)]
         IN  ("variant" :> it.product_variant) @@ ("required" :> it.quantity)
                 @@ ("available" :> db.stock[it.product_variant])

\* save_model: "Invalid transition: {old_status} -> {new_status}" and
\* "Not enough stock for {pv} (required ..., available ...). Order #{obj.pk}
\* cannot be set to {new_status}."
save_model_message(db, pk, obj) ==
    LET old_status == db.orders[pk].order_status IN
    IF old_status # obj.order_status /\ obj.order_status \notin save_model_transitions(old_status)
    THEN ("current_status" :> old_status) @@ ("requested_status" :> obj.order_status)
    ELSE LET it == db.items[pk][FirstShort(db.items[pk], db.stock)]
         IN  ("variant" :> it.product_variant) @@ ("required" :> it.quantity)
                 @@ ("available" :> db.stock[it.product_variant])
                 @@ ("order" :> pk) @@ ("requested_status" :> obj.order_status)

\* the bulk actions: "Order #{order.pk} cannot be confirmed (current
\* status: {order.order_status}). Only Pending orders can be confirmed."
\* and "Order #{order.pk}: Not enough stock for {pv}."
action_message(a, db, pk, obj) ==
    IF obj.order_status \notin ActionSources(a)
    THEN ("order" :> pk) @@ ("current_status" :> obj.order_status)
             @@ ("requested_status" :> ActionTarget(a))
    ELSE LET i == IF a = "mark_as_on_the_way" THEN FirstRefused(db.items[pk], db.stock)
                  ELSE FirstShort(db.items[pk], db.stock)
         IN  ("order" :> pk) @@ ("variant" :> db.items[pk][i].product_variant)

(* ================================================================== *)
(* Properties                                                         *)
(* ================================================================== *)
\* the transition table of the specification (section 4.2)
LifecycleEdges(s) ==
    CASE s = "Pending" -> {"Confirmed", "Cancelled"}
      [] s = "Confirmed" -> {"OnTheWay", "Cancelled"}
      [] s = "OnTheWay" -> {"Delivered", "ReturnedByClient", "ReturnedByOwner"}
      [] s \in {"Delivered", "Cancelled", "ReturnedByClient", "ReturnedByOwner"} -> {}

\* units of variant v the items its ask for
RECURSIVE Demand(_, _, _)
Demand(its, v, i) ==
    IF i > Len(its) THEN 0
    ELSE (IF its[i].product_variant = v THEN its[i].quantity ELSE 0) + Demand(its, v, i + 1)

\* an item of the order asks for more than its variant holds
SomeItemExceedsStock(pk) ==
    \E i \in 1..Len(items[pk]) :
        /\ items[pk][i].product_variant \in Variants
        /\ items[pk][i].quantity > stock[items[pk][i].product_variant]

\* the order went through the lifecycle up to its status
WasConfirmed(pk) == orders[pk].confirmed_at # Null

WasDispatched(pk) == WasConfirmed(pk) /\ orders[pk].on_the_way_at # Null

(* ------------------------------------------------------------------ *)
(* C1                                                                 *)
(* ------------------------------------------------------------------ *)
C1_OnlyEdges ==
    \A pk \in DOMAIN orders :
        orders'[pk].order_status # orders[pk].order_status
            => orders'[pk].order_status \in LifecycleEdges(orders[pk].order_status)

C1_OffTable(pk, target) ==
    /\ target # orders[pk].order_status
    /\ target \notin LifecycleEdges(orders[pk].order_status)

C1_Refused ==
    \A pk \in DOMAIN orders, target \in Status, t \in Times :
        C1_OffTable(pk, target) =>
            /\ ViaSave(pk, target, t) = [db |-> DB, outcome |-> "InvalidTransition"]
            /\ ViaSaveModel(pk, target, t) = [db |-> DB, outcome |-> "InvalidTransition"]
            /\ \A a \in Actions, sel \in Selections :
                   (ActionTarget(a) = target /\ pk \in sel) =>
                       LET r == ViaAction(a, sel, t)
                       IN  /\ r.db.orders[pk] = orders[pk]
                           /\ r.outcome[pk] \in {"InvalidTransition", "skipped"}
                           /\ sel = {pk} => (r.db = DB /\ r.outcome[pk] = "InvalidTransition")

\* C1: through Order.save, save_model and the six bulk actions the stored
\* status of an order changes only along the edges of the lifecycle table,
\* and a request for a target off the table (from a terminal status too)
\* is refused as an invalid transition and leaves the status and the five
\* timestamps as they were.
C1_TransitionTable == []C1_Refused /\ [][C1_OnlyEdges]_vars

\* a delivered order that came through the table, asked to go back
C1_Witness ==
    \E pk \in DOMAIN orders :
        /\ orders[pk].order_status = DELIVERED
        /\ WasDispatched(pk)
        /\ orders[pk].delivered_at # Null
        /\ ViaSave(pk, PENDING, now).outcome = "InvalidTransition"

(* ------------------------------------------------------------------ *)
(* C2                                                                 *)
(* ------------------------------------------------------------------ *)
\* C2: the stock of every variant is >= 0 in every reachable state, for
\* orders with several items and orders that share a variant as well.
C2_StockNonNegative == \A v \in Variants : stock[v] >= 0

\* two dispatched orders on one variant have used it up
C2_Witness ==
    \E a, b \in DOMAIN orders, v \in Variants :
        /\ a # b
        /\ orders[a].order_status = ON_THE_WAY /\ WasDispatched(a)
        /\ orders[b].order_status = ON_THE_WAY /\ WasDispatched(b)
        /\ Demand(items[a], v, 1) > 0
        /\ Demand(items[b], v, 1) > 0
        /\ stock[v] = 0

(* ------------------------------------------------------------------ *)
(* C3                                                                 *)
(* ------------------------------------------------------------------ *)
\* request q has ended and asked for OnTheWay on an order it loaded Confirmed
C3_Dispatch(q) ==
    /\ reqs[q].pc = "done"
    /\ reqs[q].target = ON_THE_WAY
    /\ reqs[q].loaded = CONFIRMED

\* p and q dispatched two orders whose items on v each fit the initial
\* stock and together do not
C3_Compete(p, q, v) ==
    /\ C3_Dispatch(p) /\ C3_Dispatch(q)
    /\ reqs[p].pk # reqs[q].pk
    /\ Demand(items[reqs[p].pk], v, 1) \in 1..ConcStock
    /\ Demand(items[reqs[q].pk], v, 1) \in 1..ConcStock
    /\ Demand(items[reqs[p].pk], v, 1) + Demand(items[reqs[q].pk], v, 1) > ConcStock

\* w was dispatched from the stock and l was refused
C3_WonLost(w, l, v) ==
    /\ reqs[w].outcome = "ok"
    /\ orders[reqs[w].pk].order_status = ON_THE_WAY
    /\ reqs[l].outcome = "InsufficientStock"
    /\ orders[reqs[l].pk].order_status = CONFIRMED
    /\ stock[v] = ConcStock - Demand(items[reqs[w].pk], v, 1)

\* C3: when two Confirmed orders hold items on one variant that fit its
\* stock one at a time but not together (quantities 3 and 3, stock 4) and
\* both are dispatched by overlapping requests, through the bulk action or
\* through a save, exactly one dispatch succeeds and takes its quantity
\* from the stock; the other is refused for insufficient stock and its
\* order stays Confirmed.
C3_ExactlyOneDispatch ==
    \A p, q \in Reqs, v \in Variants :
        C3_Compete(p, q, v) => (C3_WonLost(p, q, v) \/ C3_WonLost(q, p, v))

\* the same for two requests that both came through mark_as_on_the_way
C3_BulkOnly ==
    \A p, q \in Reqs, v \in Variants :
        (C3_Compete(p, q, v) /\ reqs[p].kind = "action" /\ reqs[q].kind = "action")
            => (C3_WonLost(p, q, v) \/ C3_WonLost(q, p, v))

(* ------------------------------------------------------------------ *)
(* C4                                                                 *)
(* ------------------------------------------------------------------ *)
\* C4: a request to move a Confirmed order to OnTheWay while one of its
\* items asks for more than its variant's stock is refused for
\* insufficient stock; no stock, no status and no timestamp changes, and
\* the order is refused as a whole.
C4_DispatchRefused ==
    \A pk \in DOMAIN orders, t \in Times :
        (orders[pk].order_status = CONFIRMED /\ SomeItemExceedsStock(pk)) =>
            /\ ViaSave(pk, ON_THE_WAY, t) = [db |-> DB, outcome |-> "InsufficientStock"]
            /\ ViaSaveModel(pk, ON_THE_WAY, t) = [db |-> DB, outcome |-> "InsufficientStock"]
            /\ \A sel \in Selections :
                   pk \in sel =>
                       LET r == ViaAction("mark_as_on_the_way", sel, t)
                       IN  /\ r.db.orders[pk] = orders[pk]
                           /\ r.outcome[pk] \in {"InsufficientStock", "skipped"}
                           /\ sel = {pk} => (r.db = DB /\ r.outcome[pk] = "InsufficientStock")

\* a confirmed order whose first item is covered and whose second is not
C4_Witness ==
    \E pk \in DOMAIN orders :
        /\ orders[pk].order_status = CONFIRMED
        /\ WasConfirmed(pk)
        /\ Len(items[pk]) = 2
        /\ items[pk][1].product_variant \in Variants
        /\ items[pk][1].quantity <= stock[items[pk][1].product_variant]
        /\ items[pk][2].product_variant \in Variants
        /\ items[pk][2].quantity > stock[items[pk][2].product_variant]
        /\ ViaSave(pk, ON_THE_WAY, now).outcome = "InsufficientStock"

(* ------------------------------------------------------------------ *)
(* C5                                                                 *)
(* ------------------------------------------------------------------ *)
AllItemsCovered(pk) ==
    \A i \in 1..Len(items[pk]) :
        items[pk][i].product_variant \in Variants
            => stock[items[pk][i].product_variant] >= items[pk][i].quantity

C5_Gate(pk, accepted, db) ==
    /\ accepted => AllItemsCovered(pk)
    /\ ~accepted => db.orders[pk] = orders[pk]
    /\ db.stock = stock

\* C5: a request to move a Pending order to Confirmed succeeds only if
\* every item has variant.stock >= quantity; refused, it leaves status and
\* timestamps alone; accepted or refused, it changes no stock.
C5_ConfirmGate ==
    \A pk \in DOMAIN orders, t \in Times :
        orders[pk].order_status = PENDING =>
            /\ LET r == ViaSave(pk, CONFIRMED, t) IN C5_Gate(pk, r.outcome = "ok", r.db)
            /\ LET r == ViaSaveModel(pk, CONFIRMED, t) IN C5_Gate(pk, r.outcome = "ok", r.db)
            /\ \A sel \in Selections :
                   pk \in sel =>
                       LET r == ViaAction("mark_as_confirmed", sel, t)
                       IN  C5_Gate(pk, r.outcome[pk] = "ok", r.db)

\* one order was confirmed with its item covered, another is pending with
\* an item that is not
C5_Witness ==
    \E a, b \in DOMAIN orders :
        /\ orders[a].order_status = CONFIRMED /\ WasConfirmed(a)
        /\ Len(items[a]) > 0 /\ AllItemsCovered(a)
        /\ orders[b].order_status = PENDING
        /\ SomeItemExceedsStock(b)
        /\ ViaSave(b, CONFIRMED, now).outcome = "InsufficientStock"

(* ------------------------------------------------------------------ *)
(* C6                                                                 *)
(* ------------------------------------------------------------------ *)
\* the orders whose stored status goes from Confirmed to OnTheWay in a step
DispatchedInStep ==
    {pk \in DOMAIN orders :
        orders[pk].order_status = CONFIRMED /\ orders'[pk].order_status = ON_THE_WAY}

RECURSIVE DemandOfOrders(_, _)
DemandOfOrders(pks, v) ==
    IF pks = {} THEN 0
    ELSE LET pk == CHOOSE x \in pks : TRUE
         IN  Demand(items[pk], v, 1) + DemandOfOrders(pks \ {pk}, v)

C6_Step ==
    /\ \A v \in Variants : stock'[v] < stock[v] => DispatchedInStep # {}
    /\ DispatchedInStep # {} =>
           \A v \in Variants : stock'[v] = stock[v] - DemandOfOrders(DispatchedInStep, v)

\* C6: a transition Confirmed -> OnTheWay takes from the stock of each
\* variant exactly the quantities of the order's items on it (their sum
\* when items share the variant), once, and stock is decreased nowhere
\* else: not at creation, not when an item is added, not on Confirmed.
C6_DispatchDecrements == [][C6_Step]_vars

(* ------------------------------------------------------------------ *)
(* C7                                                                 *)
(* ------------------------------------------------------------------ *)
\* confirm, dispatch and return of one order in a row, nothing in between
C7_Run(pk, ret, t) ==
    LET a == ViaSave(pk, CONFIRMED, t)
        b == SaveAt(a.db, pk, ON_THE_WAY, t)
        c == SaveAt(b.db, pk, ret, t)
    IN  [confirmed |-> a.db, dispatched |-> b.db, returned |-> c.db]

C7_WentThrough(pk, ret, run) ==
    /\ orders[pk].order_status = PENDING
    /\ run.confirmed.orders[pk].order_status = CONFIRMED
    /\ run.dispatched.orders[pk].order_status = ON_THE_WAY
    /\ run.returned.orders[pk].order_status = ret

\* C7: for an order that goes Pending -> Confirmed -> OnTheWay ->
\* ReturnedByClient or ReturnedByOwner while no other order touches its
\* variants, every variant has after the return the stock it had before
\* the dispatch, and what is restocked is what the dispatch removed.
C7_RoundTrip ==
    \A pk \in DOMAIN orders, ret \in Returned, t \in Times :
        LET run == C7_Run(pk, ret, t) IN
        C7_WentThrough(pk, ret, run) =>
            /\ run.confirmed.stock = stock
            /\ \A v \in Variants :
                   run.dispatched.stock[v] = stock[v] - Demand(items[pk], v, 1)
            /\ run.returned.stock = stock

(* ------------------------------------------------------------------ *)
(* C8                                                                 *)
(* ------------------------------------------------------------------ *)
EntersInStep(pk, statuses) ==
    /\ orders[pk].order_status \notin statuses
    /\ orders'[pk].order_status \in statuses

C8_Step ==
    \A v \in Variants :
        /\ stock'[v] < stock[v] =>
               \E pk \in DOMAIN orders :
                   EntersInStep(pk, {ON_THE_WAY}) /\ Demand(items[pk], v, 1) > 0
        /\ stock'[v] > stock[v] =>
               \E pk \in DOMAIN orders :
                   EntersInStep(pk, Returned) /\ Demand(items[pk], v, 1) > 0

C8_Refusal == {"InvalidTransition", "InsufficientStock"}

C8_Frame ==
    \A pk \in DOMAIN orders, t \in Times :
        /\ update_total(DB, pk, t).db.stock = stock
        /\ \A it \in ItemInputs :
               OrderItem_save(DB, pk, Len(items[pk]) + 1, it, product_price, t).db.stock = stock
        /\ \A i \in 1..Len(items[pk]) : OrderItem_delete(DB, pk, i, t).db.stock = stock
        /\ \A target \in Status :
               LET quiet == target \in {CONFIRMED, DELIVERED, CANCELLED, orders[pk].order_status}
                   r == ViaSave(pk, target, t)
                   m == ViaSaveModel(pk, target, t)
               IN  /\ (quiet \/ r.outcome \in C8_Refusal) => r.db.stock = stock
                   /\ (quiet \/ m.outcome \in C8_Refusal) => m.db.stock = stock
        /\ \A a \in Actions :
               LET r == ViaAction(a, {pk}, t)
               IN  (ActionTarget(a) \in {CONFIRMED, DELIVERED, CANCELLED}
                        \/ r.outcome[pk] \in C8_Refusal) => r.db.stock = stock

\* C8: the stock of a variant is written only when some order enters
\* OnTheWay (it goes down) or ReturnedByClient/ReturnedByOwner (it goes
\* up); creating an order, adding, changing or deleting an item, entering
\* Confirmed, Delivered or Cancelled, a save with the status unchanged
\* (update_total's among them) and every refused transition leave all
\* stock as it was.
C8_StockWrittenOnlyByTransitions == []C8_Frame /\ [][C8_Step]_vars

\* an order on its way, dispatched from stock, whose total was recomputed
\* and whose variant has stock left to compare
C8_Witness ==
    \E pk \in DOMAIN orders, v \in Variants :
        /\ orders[pk].order_status = ON_THE_WAY
        /\ WasDispatched(pk)
        /\ Demand(items[pk], v, 1) > 0
        /\ orders[pk].total_amount > 0
        /\ stock[v] > 0

(* ------------------------------------------------------------------ *)
(* C9                                                                 *)
(* ------------------------------------------------------------------ *)
C9_Kept(old, new) ==
    /\ old.confirmed_at # Null => new.confirmed_at = old.confirmed_at
    /\ old.on_the_way_at # Null => new.on_the_way_at = old.on_the_way_at
    /\ old.delivered_at # Null => new.delivered_at = old.delivered_at
    /\ old.returned_at # Null => new.returned_at = old.returned_at
    /\ old.cancelled_at # Null => new.cancelled_at = old.cancelled_at

C9_Step == \A pk \in DOMAIN orders : C9_Kept(orders[pk], orders'[pk])

\* C9: a timestamp of an order that is not null keeps its value in every
\* later step, whatever writes the order: a later save, a no-op
\* transition, a bulk action, or a second request that overlaps the first
\* on the same order.
C9_TimestampsWrittenOnce == [][C9_Step]_vars

(* ------------------------------------------------------------------ *)
(* C10                                                                *)
(* ------------------------------------------------------------------ *)
\* the actions whose target is the status s
ActionsTo(s) == {a \in Actions : ActionTarget(a) = s}

C10_NoOp(r) == r = [db |-> DB, outcome |-> "ok"]

C11_Step ==
    \A pk \in DOMAIN orders, v \in Variants :
        /\ EntersInStep(pk, {ON_THE_WAY}) => stock'[v] = stock[v] - Demand(items[pk], v, 1)
        /\ EntersInStep(pk, Returned) => stock'[v] = stock[v] + Demand(items[pk], v, 1)

\* C11: the stored status of an order becomes OnTheWay, or ReturnedByClient
\* or ReturnedByOwner, in the same step in which the stock of its variants
\* changes by the quantities of its items, whatever the entry point: no
\* request sees, and no failure leaves, the new status without the stock
\* change.
C11_StatusAndStockTogether == [][C11_Step]_vars

(* ------------------------------------------------------------------ *)
(* C12                                                                *)
(* ------------------------------------------------------------------ *)
\* what the batch r of action a did with the order pk of the selection
C12_Order(a, pk, r) ==
    LET moved == r.db.orders[pk].order_status # orders[pk].order_status IN
    /\ r.outcome[pk] \in {"ok", "InvalidTransition", "InsufficientStock"}
    /\ r.outcome[pk] = "InvalidTransition" <=> orders[pk].order_status \notin ActionSources(a)
    /\ r.outcome[pk] = "InsufficientStock" => a \in {"mark_as_confirmed", "mark_as_on_the_way"}
    /\ r.outcome[pk] = "ok" <=> moved
    /\ moved => r.db.orders[pk].order_status = ActionTarget(a)
    /\ ~moved => r.db.orders[pk] = orders[pk]

C12_Batch(a, sel, r) ==
    /\ ~r.raised
    /\ \A pk \in sel : C12_Order(a, pk, r)
    /\ Successes(r.outcome) =
           Cardinality({pk \in sel : r.db.orders[pk].order_status # orders[pk].order_status})
    /\ \A pk \in DOMAIN orders \ sel : r.db.orders[pk] = orders[pk]

\* C12: a bulk action goes through its whole selection: an order in the
\* wrong status or short of stock is left as it was and reported as an
\* error, every other order of the selection is moved to the action's
\* target, and the success count is the number of orders whose status
\* changed.
C12_BulkIndependent ==
    \A a \in Actions, sel \in Selections, t \in Times : C12_Batch(a, sel, ViaAction(a, sel, t))

(* ------------------------------------------------------------------ *)
(* C13                                                                *)
(* ------------------------------------------------------------------ *)
\* c asked for Cancelled and d for OnTheWay on one order that both loaded
\* as Confirmed, and both have ended
C13_Race(c, d) ==
    /\ reqs[c].pc = "done" /\ reqs[d].pc = "done"
    /\ reqs[c].pk = reqs[d].pk
    /\ reqs[c].loaded = CONFIRMED /\ reqs[d].loaded = CONFIRMED
    /\ reqs[c].target = CANCELLED /\ reqs[d].target = ON_THE_WAY

\* the two outcomes of running them one after the other
C13_CancelFirst(c, d) ==
    /\ reqs[c].outcome = "ok" /\ reqs[d].outcome = "InvalidTransition"
    /\ orders[reqs[c].pk].order_status = CANCELLED
    /\ \A v \in Variants : stock[v] = ConcStock

C13_DispatchFirst(c, d) ==
    /\ reqs[d].outcome = "ok" /\ reqs[c].outcome = "InvalidTransition"
    /\ orders[reqs[d].pk].order_status = ON_THE_WAY
    /\ \A v \in Variants : stock[v] = ConcStock - Demand(items[reqs[d].pk], v, 1)

\* C13: when a request for Cancelled and a request for OnTheWay overlap on
\* one Confirmed order, exactly one takes effect and the other is refused,
\* and the order and the stock end as if the two had run one after the
\* other: Cancelled with the stock untouched, or OnTheWay with the items
\* taken from the stock.
C13_SerialOutcome ==
    \A c, d \in Reqs : C13_Race(c, d) => (C13_CancelFirst(c, d) \/ C13_DispatchFirst(c, d))

(* ------------------------------------------------------------------ *)
(* C14                                                                *)
(* ------------------------------------------------------------------ *)
\* the sum over the items of price * quantity
RECURSIVE SumOfItems(_)
SumOfItems(its) ==
    IF its = <<>> THEN 0
    ELSE Head(its).price * Head(its).quantity + SumOfItems(Tail(its))

\* the stored total of the order is what its items and its fee add up to
TotalIsExact(ords, its, pk) ==
    ords[pk].total_amount = SumOfItems(its[pk]) + ords[pk].delivery_fees

C14_Step ==
    \A pk \in DOMAIN orders :
        items'[pk] # items[pk] => TotalIsExact(orders', items', pk)

\* C14: right after an item of an order is created, saved with another
\* quantity or variant, or deleted, the order's total_amount is the sum of
\* price * quantity over its items plus its delivery_fees (the
\* delivery_fees alone when no item is left).
C14_TotalAfterItemChange == [][C14_Step]_vars

\* an order with a delivery fee and two items whose total was recomputed
C14_Witness ==
    \E pk \in DOMAIN orders :
        /\ orders[pk].delivery_fees > 0
        /\ Len(items[pk]) = 2
        /\ orders[pk].total_amount > orders[pk].delivery_fees
        /\ TotalIsExact(orders, items, pk)

(* ------------------------------------------------------------------ *)
(* C15                                                                *)
(* ------------------------------------------------------------------ *)
C15_Step ==
    \A pk \in DOMAIN orders :
        orders'[pk].delivery_fees # orders[pk].delivery_fees
            => TotalIsExact(orders', items', pk)

\* C15: right after a save that changes an order's delivery_fees, the
\* order's total_amount is the sum of price * quantity over its items
\* plus the new delivery_fees.
C15_TotalAfterFeeChange == [][C15_Step]_vars

(* ------------------------------------------------------------------ *)
(* C16                                                                *)
(* ------------------------------------------------------------------ *)
\* the statuses in which the specification locks the items of an order
LockedStatuses ==
    {"OnTheWay", "Delivered", "ReturnedByClient", "ReturnedByOwner", "Cancelled"}

C16_Step ==
    \A pk \in DOMAIN orders :
        orders[pk].order_status \in LockedStatuses =>
            /\ items'[pk] = items[pk]
            /\ orders'[pk].total_amount = orders[pk].total_amount

\* C16: while an order is OnTheWay, Delivered, ReturnedByClient,
\* ReturnedByOwner or Cancelled no step adds an item to it, changes the
\* variant or quantity of one of its items or deletes one, and its total
\* stays as it is; items change only while the order is Pending or
\* Confirmed.
C16_LockedItems == [][C16_Step]_vars

(* ------------------------------------------------------------------ *)
(* C17                                                                *)
(* ------------------------------------------------------------------ *)
\* when no item is deleted in the step, every stored item that keeps its
\* variant keeps its price
C17_Step ==
    \A pk \in DOMAIN orders :
        Len(items'[pk]) >= Len(items[pk]) =>
            \A i \in 1..Len(items[pk]) :
                items'[pk][i].product_variant = items[pk][i].product_variant
                    => items'[pk][i].price = items[pk][i].price

\* C17: the price of a stored item is the catalog price taken when the
\* item was first saved: no later save of the item (a quantity edit, say)
\* changes it, whatever happened to the catalog price in between.
C17_PriceSnapshot == [][C17_Step]_vars

(* ------------------------------------------------------------------ *)
(* C18                                                                *)
(* ------------------------------------------------------------------ *)
C18_Step ==
    \A pk \in DOMAIN orders' :
        pk \notin DOMAIN orders => orders'[pk].order_status = "Pending"

\* C18: an order that is stored for the first time, by the save of a new
\* Order or by the admin add form, is stored as Pending, so that every
\* other status is reached through the transitions and their stock gates.
C18_CreatedPending == [][C18_Step]_vars

(* ------------------------------------------------------------------ *)
(* C19                                                                *)
(* ------------------------------------------------------------------ *)
\* what a dispatch r of the order pk did to the stock: all of the order's
\* quantities taken, or, when it did not go through, an insufficient-stock
\* refusal and nothing taken
C19_Dispatch(pk, r) ==
    /\ r.outcome = "ok" =>
           \A v \in Variants : r.db.stock[v] = stock[v] - Demand(items[pk], v, 1)
    /\ r.outcome # "ok" => (r.outcome = "InsufficientStock" /\ r.db.stock = stock)

\* C19: a decrement that meets a stock below its quantity is refused with
\* an insufficient-stock error and leaves the stock as it was; a decrement
\* that goes through takes exactly its quantity, and no operation that
\* writes stock cuts the result off at 0.
C19_DecrementRefusedNotClamped ==
    \A pk \in DOMAIN orders, t \in Times :
        /\ orders[pk].order_status = CONFIRMED => C19_Dispatch(pk, ViaSave(pk, ON_THE_WAY, t))
        /\ \A listed \in BOOLEAN : bulk_update_stock(DB, listed).db.stock = stock

(* ------------------------------------------------------------------ *)
(* C20                                                                *)
(* ------------------------------------------------------------------ *)
\* a request to confirm the Pending order pk takes nothing from the stock
C20_NothingReserved(pk, t) ==
    /\ ViaSave(pk, CONFIRMED, t).db.stock = stock
    /\ ViaSaveModel(pk, CONFIRMED, t).db.stock = stock
    /\ ViaAction("mark_as_confirmed", {pk}, t).db.stock = stock

\* the dispatch r of the order pk was refused for insufficient stock
C20_RefusedAtDispatch(pk, r) ==
    /\ r.outcome = "InsufficientStock"
    /\ r.db.orders[pk].order_status = CONFIRMED
    /\ r.db.stock = stock
    /\ \A v \in Variants : r.db.stock[v] >= 0

\* C20: confirming an order reserves no stock: the request changes no
\* stock, and a Confirmed order whose item has come to exceed the stock
\* is refused at dispatch for insufficient stock, stays Confirmed and
\* leaves the stock as it is, not below zero.
C20_ConfirmReservesNothing ==
    \A pk \in DOMAIN orders, t \in Times :
        /\ orders[pk].order_status = PENDING => C20_NothingReserved(pk, t)
        /\ (orders[pk].order_status = CONFIRMED /\ SomeItemExceedsStock(pk)) =>
               /\ C20_RefusedAtDispatch(pk, ViaSave(pk, ON_THE_WAY, t))
               /\ C20_RefusedAtDispatch(pk, ViaSaveModel(pk, ON_THE_WAY, t))

\* request p confirmed order A (its stock check passed), request q then
\* dispatched order B from the same variant, and A, still Confirmed, now
\* asks for more than is left: its dispatch is refused
C20_Witness ==
    \E p, q \in Reqs, v \in Variants :
        LET A == reqs[p].pk
            B == reqs[q].pk
        IN  /\ reqs[p].pc = "done" /\ reqs[q].pc = "done"
            /\ reqs[p].loaded = PENDING /\ reqs[p].target = CONFIRMED /\ reqs[p].outcome = "ok"
            /\ reqs[q].loaded = CONFIRMED /\ reqs[q].target = ON_THE_WAY /\ reqs[q].outcome = "ok"
            /\ A # B
            /\ orders[A].order_status = CONFIRMED
            /\ orders[B].order_status = ON_THE_WAY
            /\ Demand(items[B], v, 1) > 0
            /\ stock[v] = ConcStock - Demand(items[B], v, 1)
            /\ Demand(items[A], v, 1) > stock[v]
            /\ ViaSave(A, ON_THE_WAY, now).outcome = "InsufficientStock"
            /\ ViaAction("mark_as_on_the_way", {A}, now).outcome[A] = "InsufficientStock"

(* ------------------------------------------------------------------ *)
(* C21                                                                *)
(* ------------------------------------------------------------------ *)
\* the transition test of each encoding lets the order pk go to target
C21_CleanAccepts(pk, target, t) == ViaSave(pk, target, t).outcome # "InvalidTransition"

C21_SaveModelAccepts(pk, target, t) == ViaSaveModel(pk, target, t).outcome # "InvalidTransition"

C21_FormOffers(pk, target) == target \in form_allowed(orders[pk].order_status)

C21_ActionAccepts(pk, target, t) ==
    \E a \in ActionsTo(target) : ViaAction(a, {pk}, t).outcome[pk] # "InvalidTransition"

C21_Agree(pk, target, t) ==
    /\ C21_CleanAccepts(pk, target, t) <=> C21_SaveModelAccepts(pk, target, t)
    /\ C21_CleanAccepts(pk, target, t) <=> C21_FormOffers(pk, target)
    /\ C21_CleanAccepts(pk, target, t) <=> C21_ActionAccepts(pk, target, t)

\* an action that goes through stores its own target and nothing else
C21_OwnTarget(pk, a, t) ==
    LET r == ViaAction(a, {pk}, t)
    IN  /\ r.outcome[pk] = "ok" => r.db.orders[pk].order_status = ActionTarget(a)
        /\ r.outcome[pk] # "ok" => r.db.orders[pk].order_status = orders[pk].order_status

\* C21: for every stored order and every status other than its own,
\* Order.clean lets the transition through iff save_model does iff the
\* change form offers the status iff the bulk action with that target
\* does; each status other than Pending is the target of exactly one bulk
\* action, and an action stores no status but its target.
C21_EncodingsAgree ==
    /\ \A s \in Status \ {PENDING} : Cardinality(ActionsTo(s)) = 1
    /\ \A pk \in DOMAIN orders, t \in Times :
           /\ \A target \in Status \ {orders[pk].order_status} : C21_Agree(pk, target, t)
           /\ \A a \in Actions : C21_OwnTarget(pk, a, t)

\* an order on its way that all four let go to Delivered and none lets go
\* to Cancelled
C21_Witness ==
    \E pk \in DOMAIN orders :
        /\ orders[pk].order_status = ON_THE_WAY
        /\ WasDispatched(pk)
        /\ C21_CleanAccepts(pk, DELIVERED, now) /\ C21_FormOffers(pk, DELIVERED)
        /\ C21_ActionAccepts(pk, DELIVERED, now)
        /\ ~C21_CleanAccepts(pk, CANCELLED, now) /\ ~C21_FormOffers(pk, CANCELLED)
        /\ ~C21_ActionAccepts(pk, CANCELLED, now)

(* ------------------------------------------------------------------ *)
(* C22                                                                *)
(* ------------------------------------------------------------------ *)
Stated(m, name, value) == name \in DOMAIN m /\ m[name] = value

\* the message m tells which order was refused, in which status, for
\* which requested status
C22_NamesTransition(m, pk, target) ==
    /\ Stated(m, "order", pk)
    /\ Stated(m, "current_status", orders[pk].order_status)
    /\ Stated(m, "requested_status", target)

\* and, for a refusal for stock, an item of the order that is short, with
\* its quantity and the stock of its variant
C22_NamesShortfall(m, pk) ==
    \E i \in 1..Len(items[pk]) :
        /\ items[pk][i].product_variant \in Variants
        /\ Stated(m, "variant", items[pk][i].product_variant)
        /\ Stated(m, "required", items[pk][i].quantity)
        /\ Stated(m, "available", stock[items[pk][i].product_variant])

C22_Complete(outcome, m, pk, target) ==
    /\ outcome = "InvalidTransition" => C22_NamesTransition(m, pk, target)
    /\ outcome = "InsufficientStock" =>
           (C22_NamesTransition(m, pk, target) /\ C22_NamesShortfall(m, pk))

\* C22: the error that comes with a refused transition states the order,
\* its current status and the requested status, and for a refusal for
\* insufficient stock also the variant, the quantity required and the
\* quantity available; so for Order.save, for save_model and for the bulk
\* actions.
C22_ErrorsIdentify ==
    \A pk \in DOMAIN orders, target \in Status, t \in Times :
        /\ LET r == ViaSave(pk, target, t)
           IN  r.outcome \in {"InvalidTransition", "InsufficientStock"} =>
                   C22_Complete(r.outcome, clean_message(DB, pk, Requested(pk, target)), pk, target)
        /\ LET r == ViaSaveModel(pk, target, t)
           IN  r.outcome \in {"InvalidTransition", "InsufficientStock"} =>
                   C22_Complete(r.outcome, save_model_message(DB, pk, Requested(pk, target)), pk, target)
        /\ \A a \in ActionsTo(target) :
               LET r == ViaAction(a, {pk}, t)
               IN  r.outcome[pk] \in {"InvalidTransition", "InsufficientStock"} =>
                       C22_Complete(r.outcome[pk], action_message(a, DB, pk, orders[pk]), pk, target)

\* what the messages do state
C22_StatedInFact ==
    \A pk \in DOMAIN orders, target \in Status, t \in Times :
        /\ LET r == ViaSave(pk, target, t)
               m == clean_message(DB, pk, Requested(pk, target))
           IN  /\ r.outcome = "InvalidTransition" =>
                      (Stated(m, "current_status", orders[pk].order_status)
                           /\ Stated(m, "requested_status", target))
               /\ r.outcome = "InsufficientStock" => C22_NamesShortfall(m, pk)
        /\ \A a \in ActionsTo(target) :
               LET r == ViaAction(a, {pk}, t)
                   m == action_message(a, DB, pk, orders[pk])
               IN  /\ r.outcome[pk] = "InvalidTransition" => C22_NamesTransition(m, pk, target)
                   /\ r.outcome[pk] = "InsufficientStock" => Stated(m, "order", pk)

(* ------------------------------------------------------------------ *)
(* C23                                                                *)
(* ------------------------------------------------------------------ *)
\* some stored item references the variant v
Referenced(v) ==
    \E pk \in DOMAIN orders : \E i \in 1..Len(items[pk]) : items[pk][i].product_variant = v

C23_Rejected(r) == r = [db |-> DB, outcome |-> "ProtectedError"]

\* C23: the deletion of a variant that a stored item references, on its
\* own or along with its product, is rejected and changes no variant, no
\* item and no order; so every stored item that has a variant has a
\* stored one.
C23_VariantProtected ==
    /\ \A v \in DOMAIN stock :
           Referenced(v) => (C23_Rejected(ProductVariant_delete(DB, v))
                                 /\ C23_Rejected(Product_delete(DB)))
    /\ \A pk \in DOMAIN orders :
           \A i \in 1..Len(items[pk]) :
               items[pk][i].product_variant # NoVariant
                   => items[pk][i].product_variant \in DOMAIN stock

\* an order has two items, a stored variant is referenced by an item, and
\* the variant's deletion is rejected
C23_Witness ==
    \E v \in DOMAIN stock :
        /\ Referenced(v)
        /\ ProductVariant_delete(DB, v).outcome = "ProtectedError"
        /\ \E pk \in DOMAIN orders : Len(items[pk]) = 2

(* ------------------------------------------------------------------ *)
(* C24                                                                *)
(* ------------------------------------------------------------------ *)
\* the read-only order fields do not shrink from old to new
C24_Grows(old, new) ==
    OrderAdmin_get_readonly_fields(old) \subseteq OrderAdmin_get_readonly_fields(new)

\* the item fields are read-only exactly from OnTheWay on, the status
\* exactly in the terminal statuses
C24_Exact(s) ==
    /\ {"product_variant", "quantity"} \subseteq OrderItemInline_get_readonly_fields(s)
           <=> s \in {ON_THE_WAY} \cup Terminal
    /\ {"product_variant", "quantity"} \cap OrderItemInline_get_readonly_fields(s) # {}
           <=> s \in {ON_THE_WAY} \cup Terminal
    /\ "order_status" \in OrderAdmin_get_readonly_fields(s) <=> s \in Terminal

\* C24: over every allowed transition, and over every change of status
\* that the change form of a stored order accepts, the read-only order
\* fields of the new status include those of the old one; product_variant
\* and quantity are read-only exactly in OnTheWay and the terminal
\* statuses, order_status exactly in the four terminal statuses.
C24_ReadonlyGrows ==
    /\ \A old \in Status : \A new \in valid_transitions(old) : C24_Grows(old, new)
    /\ \A s \in Status : C24_Exact(s)
    /\ \A pk \in DOMAIN orders :
           /\ C24_Exact(orders[pk].order_status)
           /\ \A t \in Status :
                  LET r == ViaSaveModel(pk, t, now) IN
                  r.outcome = "ok"
                      => C24_Grows(orders[pk].order_status, r.db.orders[pk].order_status)

\* an order is on the way and the change form accepts a terminal status
\* for it, which locks order_status
C24_Witness ==
    \E pk \in DOMAIN orders :
        /\ orders[pk].order_status = ON_THE_WAY
        /\ orders[pk].on_the_way_at # Null
        /\ \E t \in Terminal :
               /\ ViaSaveModel(pk, t, now).outcome = "ok"
               /\ ViaSaveModel(pk, t, now).db.orders[pk].order_status = t
               /\ "order_status" \in OrderAdmin_get_readonly_fields(t)
                      \ OrderAdmin_get_readonly_fields(ON_THE_WAY)

(* ------------------------------------------------------------------ *)
(* C25                                                                *)
(* ------------------------------------------------------------------ *)
\* the order's items ask of no variant more than it holds
C25_DemandCovered(pk) == \A v \in Variants : Demand(items[pk], v, 1) <= stock[v]

\* the rows rdb left by a dispatch request for the order pk: dispatched
\* only with its demand covered, and then with its whole demand taken
C25_Gate(pk, rdb) ==
    /\ rdb.orders[pk].order_status = ON_THE_WAY => C25_DemandCovered(pk)
    /\ ~C25_DemandCovered(pk) => rdb = DB
    /\ \A v \in Variants : rdb.stock[v] \in {stock[v], stock[v] - Demand(items[pk], v, 1)}

\* C25: a Confirmed order is accepted for OnTheWay, by o.save(), by the
\* change form and by the bulk action, only if for every variant the sum
\* of the quantities of its items on that variant is within the variant's
\* stock; an order over it changes nothing, an accepted one takes its
\* whole demand.
C25_GateSumsPerVariant ==
    \A pk \in DOMAIN orders, t \in Times :
        orders[pk].order_status = CONFIRMED =>
            /\ C25_Gate(pk, ViaSave(pk, ON_THE_WAY, t).db)
            /\ C25_Gate(pk, ViaSaveModel(pk, ON_THE_WAY, t).db)
            /\ C25_Gate(pk, ViaAction("mark_as_on_the_way", {pk}, t).db)

\* the same for orders none of whose variants carries two items
C25_GateOfSingleItems ==
    \A pk \in DOMAIN orders, t \in Times :
        (/\ orders[pk].order_status = CONFIRMED
         /\ \A i, j \in 1..Len(items[pk]) :
                (i # j /\ items[pk][i].product_variant \in Variants)
                    => items[pk][i].product_variant # items[pk][j].product_variant) =>
            /\ C25_Gate(pk, ViaSave(pk, ON_THE_WAY, t).db)
            /\ C25_Gate(pk, ViaSaveModel(pk, ON_THE_WAY, t).db)
            /\ C25_Gate(pk, ViaAction("mark_as_on_the_way", {pk}, t).db)

(* ------------------------------------------------------------------ *)
(* C26                                                                *)
(* ------------------------------------------------------------------ *)
\* the requests p and q are, or were, both about the order pk, whose one
\* item is on variant 1: every change of that variant's stock since the
\* initial state is theirs
C26_BothOn(p, q, pk) == p # q /\ reqs[p].pk = pk /\ reqs[q].pk = pk

\* what the order's item did to the stock since the initial state.  An
\* order one of the requests loaded as Pending or Confirmed was not on
\* the way initially: one decrement, and one restock after it, leave the
\* stock at its initial value or one quantity below.  An order that was
\* on the way initially was decremented before: one restock leaves the
\* stock at its initial value or one quantity above.
C26_OnceEach(p, q, pk) ==
    LET n == items[pk][1].quantity
        net == stock[1] - ConcStock
    IN  IF reqs[p].loaded \in {PENDING, CONFIRMED} \/ reqs[q].loaded \in {PENDING, CONFIRMED}
        THEN net \in {0, 0 - n}
        ELSE net \in {0, n}

\* C26: whatever the interleaving of two requests on one order, the
\* order's items are taken from the stock at most once and put back at
\* most once, and put back only after they were taken.
C26_StockMovedOnce ==
    \A p, q \in Reqs, pk \in DOMAIN orders : C26_BothOn(p, q, pk) => C26_OnceEach(p, q, pk)

\* the same for two overlapping bulk dispatches, which lock the variants
\* before they read the stored status
C26_BulkDispatchOnce ==
    \A p, q \in Reqs, pk \in DOMAIN orders :
        (/\ C26_BothOn(p, q, pk)
         /\ reqs[p].a = "mark_as_on_the_way"
         /\ reqs[q].a = "mark_as_on_the_way") => C26_OnceEach(p, q, pk)

(* ------------------------------------------------------------------ *)
(* C27                                                                *)
(* ------------------------------------------------------------------ *)
\* the three dispatch requests for the Confirmed order pk are refused for
\* insufficient stock together and succeed together
C27_SameGate(pk, t) ==
    LET s == ViaSave(pk, ON_THE_WAY, t)
        m == ViaSaveModel(pk, ON_THE_WAY, t)
        b == ViaAction("mark_as_on_the_way", {pk}, t)
    IN  /\ b.outcome[pk] = "InsufficientStock" <=> s.outcome = "InsufficientStock"
        /\ b.outcome[pk] = "InsufficientStock" <=> m.outcome = "InsufficientStock"
        /\ b.outcome[pk] = "ok" <=> s.outcome = "ok"
        /\ b.outcome[pk] = "ok" <=> m.outcome = "ok"

\* C27: for every Confirmed order and every stock, the bulk action
\* mark_as_on_the_way accepts the order exactly when o.save() and the
\* change form accept it with status OnTheWay, orders with an item
\* without variant included.
C27_BulkGateIsSaveGate ==
    \A pk \in DOMAIN orders, t \in Times :
        orders[pk].order_status = CONFIRMED => C27_SameGate(pk, t)

\* the same for orders all of whose items have a variant
C27_SameGateWithVariants ==
    \A pk \in DOMAIN orders, t \in Times :
        (/\ orders[pk].order_status = CONFIRMED
         /\ \A i \in 1..Len(items[pk]) : items[pk][i].product_variant # NoVariant)
            => C27_SameGate(pk, t)

(* ------------------------------------------------------------------ *)
(* C28                                                                *)
(* ------------------------------------------------------------------ *)
\* the timestamps of the row o agree with its status
C28_Consistent(o) ==
    LET c == o.confirmed_at # Null
        w == o.on_the_way_at # Null
        d == o.delivered_at # Null
        r == o.returned_at # Null
        x == o.cancelled_at # Null
    IN  /\ o.order_status = PENDING => ~c /\ ~w /\ ~d /\ ~r /\ ~x
        /\ o.order_status = CONFIRMED => c /\ ~w /\ ~d /\ ~r /\ ~x
        /\ o.order_status = ON_THE_WAY => c /\ w
        /\ o.order_status = DELIVERED => d /\ c /\ w
        /\ o.order_status \in Returned => r /\ c /\ w
        /\ o.order_status = CANCELLED => x /\ ~w
        /\ ~(d /\ r) /\ ~(d /\ x) /\ ~(r /\ x)

\* C28: the timestamps of every stored order agree with its status:
\* none for Pending, confirmed_at alone for Confirmed, confirmed_at and
\* on_the_way_at for OnTheWay, these and delivered_at for Delivered,
\* these and returned_at for the Returned statuses, cancelled_at without
\* on_the_way_at for Cancelled, and at most one of delivered_at,
\* returned_at, cancelled_at.
C28_TimestampsMatchStatus == \A pk \in DOMAIN orders : C28_Consistent(orders[pk])

\* no handler breaks the agreement of a stored order
C28_Step ==
    \A pk \in DOMAIN orders : C28_Consistent(orders[pk]) => C28_Consistent(orders'[pk])

C28_HandlersKeepAgreement == [][C28_Step]_vars

(* ------------------------------------------------------------------ *)
(* C29                                                                *)
(* ------------------------------------------------------------------ *)
\* the place of a status in the lifecycle: a change of status goes up
C29_Rank(s) ==
    CASE s = PENDING -> 0
      [] s = CONFIRMED -> 1
      [] s = ON_THE_WAY -> 2
      [] OTHER -> 3

C29_Step ==
    \A pk \in DOMAIN orders :
        orders'[pk].order_status # orders[pk].order_status =>
            /\ orders[pk].order_status \notin Terminal
            /\ C29_Rank(orders'[pk].order_status) > C29_Rank(orders[pk].order_status)

\* C29: every change of a stored status moves the order up the lifecycle
\* Pending, Confirmed, OnTheWay, terminal, so a status that was left does
\* not come back and an order changes status at most three times; a
\* stored terminal status is changed by no operation.
C29_StatusOnlyAdvances == [][C29_Step]_vars

(* ------------------------------------------------------------------ *)
(* C30                                                                *)
(* ------------------------------------------------------------------ *)
\* the order went through the whole workflow to Delivered and has a
\* positive total
C30_Completed(pk) ==
    /\ orders[pk].order_status = DELIVERED
    /\ WasDispatched(pk)
    /\ orders[pk].delivered_at # Null
    /\ orders[pk].total_amount > 0

\* C30: when an order with a positive total has reached Delivered through
\* the workflow, total_revenue() and conversion_overall() are above 0.
C30_ReportsCountCompleted ==
    (\E pk \in DOMAIN orders : C30_Completed(pk))
        => (total_revenue(DB) > 0 /\ conversion_overall(DB) > 0)

\* no stored order has the status the reports select, so both reports
\* are 0 in every state
C30_ReportsEmpty ==
    /\ \A pk \in DOMAIN orders : orders[pk].order_status # "Accepted"
    /\ total_revenue(DB) = 0
    /\ conversion_overall(DB) = 0

====
